---- MODULE Spec2Model ----
(***************************************************************************)
(* Dengue choropleth pipeline of Dashboard_CW_01: name normalisation, the  *)
(* GeoJSON and CSV loaders, the month merge, the colour-scale selection,   *)
(* the Bokeh dashboard (app/main.py) and the batch build (app/build_all.py *)
(* driving app/build_map.py).                                              *)
(*                                                                         *)
(* Strings are sequences of one-character strings.  Floating point values  *)
(* are exact: a finite value is a reduced fraction n/d, and NaN, +inf and  *)
(* Python's None are separate values.  Negative numbers do not occur: the  *)
(* inputs are counts, populations and rates.                               *)
(***************************************************************************)
EXTENDS Integers, Sequences, FiniteSets, TLC

VARIABLES
    prog,             \* which script runs: "main", "build_all", "norm", "month_iter"
    pc,               \* position in the script, or the exception that ended it
    csv,              \* rows of data/dengue_monthly.csv as read_csv parses them
    geo,              \* features of data/sri_lanka_districts.geojson as json parses them
    df_all,           \* main.py: df_all
    gj_base,          \* main.py: gj_base
    months_sorted,    \* main.py: months_sorted
    vmax_map,         \* main.py: vmax_map
    GEOJSON_BY_MONTH, \* main.py: month key -> merged features
    df,               \* build_all.py: df
    global_vmax,      \* build_all.py: global_vmax
    pairs,            \* build_all.py: pairs
    built,            \* build_all.py: one record per finished build_map.py run
    index_page,       \* build_all.py: the entries written to docs/index.html
    ui,               \* main.py: source, mapper, glyph, color bar, title, selects
    name_in,          \* the string norm is applied to
    name_out,         \* <<norm(s)>> and then <<norm(s), norm(norm(s))>>
    gen               \* data_utils.py month_iter: arguments, locals y and m, values yielded

vars == <<prog, pc, csv, geo, df_all, gj_base, months_sorted, vmax_map,
          GEOJSON_BY_MONTH, df, global_vmax, pairs, built, index_page, ui, name_in, name_out,
          gen>>

-----------------------------------------------------------------------------
(* Bounds of the model *)

MaxRows == 2        \* rows in the case table
MaxFeatures == 2    \* features in the geo file
MaxProps == 2       \* properties of one feature in the geo-load specification
MaxYears == 1       \* years after the first one in a month_iter argument
MaxYield == 26      \* values drawn from one month_iter generator
MaxTokens == 3      \* fragments concatenated into an input of norm

-----------------------------------------------------------------------------
(* Characters and strings *)

UpperCase == <<"A","B","C","D","E","F","G","H","I","J","K","L","M",
               "N","O","P","Q","R","S","T","U","V","W","X","Y","Z">>
LowerCase == <<"a","b","c","d","e","f","g","h","i","j","k","l","m",
               "n","o","p","q","r","s","t","u","v","w","x","y","z">>

\* str.lower on one character
LowerChar(c) ==
    IF \E i \in 1..26 : UpperCase[i] = c
    THEN LowerCase[CHOOSE i \in 1..26 : UpperCase[i] = c]
    ELSE c

\* str.lower
Lower(s) == [i \in 1..Len(s) |-> LowerChar(s[i])]

\* str.replace(pat, ""): non-overlapping occurrences, scanned left to right
RECURSIVE Remove(_, _)
Remove(s, pat) ==
    IF Len(s) < Len(pat) THEN s
    ELSE IF SubSeq(s, 1, Len(pat)) = pat
         THEN Remove(SubSeq(s, Len(pat) + 1, Len(s)), pat)
         ELSE <<Head(s)>> \o Remove(Tail(s), pat)

\* the characters str.strip() removes at both ends
Whitespace == {" ", "\t", "\n"}

RECURSIVE LStrip(_)
LStrip(s) == IF s # <<>> /\ Head(s) \in Whitespace THEN LStrip(Tail(s)) ELSE s

RECURSIVE RStrip(_)
RStrip(s) ==
    IF s # <<>> /\ s[Len(s)] \in Whitespace THEN RStrip(SubSeq(s, 1, Len(s) - 1)) ELSE s

\* str.strip
Strip(s) == LStrip(RStrip(s))

\* Python's None, where a string is expected
PyNone == <<"None-object">>

\* (name or ""): None and the empty string both give ""
OrEmpty(name) == IF name = PyNone \/ name = <<>> THEN <<>> ELSE name

\* str(x) of a JSON value: a string is itself, null prints as None
PyStr(x) == IF x = PyNone THEN <<"N","o","n","e">> ELSE x

StrDistrict == <<"d","i","s","t","r","i","c","t">>

\* norm: (name or "").lower().replace("district", "").replace(" ", "").strip()
norm(name) == Strip(Remove(Remove(Lower(OrEmpty(name)), StrDistrict), <<" ">>))

-----------------------------------------------------------------------------
(* Labels used in the inputs *)

Colombo == <<"C","o","l","o","m","b","o">>
ColomboDistrict == <<"C","o","l","o","m","b","o"," ","D","i","s","t","r","i","c","t">>
Gampaha == <<"G","a","m","p","a","h","a">>
Kandy == <<"K","a","n","d","y">>
GALLE == <<"G","A","L","L","E">>
LK == <<"L","K">>

-----------------------------------------------------------------------------
(* Numbers: float64 values, pandas missing values and Python's None *)

NaN == [k |-> "nan", n |-> 0, d |-> 1]     \* float('nan'), pd.NA, a blank CSV cell
Inf == [k |-> "inf", n |-> 0, d |-> 1]     \* float('inf')
None == [k |-> "none", n |-> 0, d |-> 1]   \* Python's None (JSON null)

RECURSIVE GCD(_, _)
GCD(a, b) == IF b = 0 THEN a ELSE GCD(b, a % b)

\* the finite value n/d (n >= 0, d > 0), reduced
Rat(n, d) == [k |-> "num", n |-> n \div GCD(n, d), d |-> d \div GCD(n, d)]
Num(n) == Rat(n, 1)

IsNum(v) == v.k = "num"
\* pd.isna / Series.isna: None, NaN and pd.NA are missing; inf is not
IsNA(v) == v.k \in {"nan", "none"}
NotNA(v) == ~IsNA(v)
\* JavaScript isFinite / math.isfinite
IsFinite(v) == v.k = "num"

\* a < b on non-missing values
Less(a, b) ==
    IF a.k = "inf" THEN FALSE
    ELSE IF b.k = "inf" THEN TRUE
    ELSE a.n * b.d < b.n * a.d

\* float64 a / b as pandas divides two columns (x/0 is inf, 0/0 is NaN)
FDiv(a, b) ==
    IF IsNA(a) \/ IsNA(b) THEN NaN
    ELSE IF a.k = "inf" THEN (IF b.k = "inf" THEN NaN ELSE Inf)
    ELSE IF b.k = "inf" THEN Num(0)
    ELSE IF b.n = 0 THEN (IF a.n = 0 THEN NaN ELSE Inf)
    ELSE Rat(a.n * b.d, a.d * b.n)

\* float64 a * b
FMul(a, b) ==
    IF IsNA(a) \/ IsNA(b) THEN NaN
    ELSE IF a.k = "inf" \/ b.k = "inf"
         THEN (IF (IsNum(a) /\ a.n = 0) \/ (IsNum(b) /\ b.n = 0) THEN NaN ELSE Inf)
    ELSE Rat(a.n * b.n, a.d * b.d)

\* a + (b - a) * t for finite a <= b
Lerp(a, b, t) ==
    LET diff == Rat(b.n * a.d - a.n * b.d, a.d * b.d)
        step == Rat(diff.n * t.n, diff.d * t.d)
    IN  Rat(a.n * step.d + step.n * a.d, a.d * step.d)

\* the scale factor of the incidence: 1e5
PER_100K == 100000

\* (cases / population) * 1e5
Incidence(cases, population) == FMul(FDiv(cases, population), Num(PER_100K))

\* Series.dropna() of a list of values
DropNA(vals) == SelectSeq(vals, NotNA)

\* Series.quantile(q) with q = qn/100, linear interpolation between the two
\* nearest order statistics of the non-missing values; no values give NaN.
\* With an infinite neighbour the result depends on the order in which NumPy
\* evaluates the interpolation (inf - inf, inf * 0): either inf or NaN.
QuantileOutcomes(vals, qn) ==
    LET s == SortSeq(DropNA(vals), Less)
        cnt == Len(s)
        lo == (qn * (cnt - 1)) \div 100
        frac == Rat((qn * (cnt - 1)) % 100, 100)
        hi == IF lo + 1 < cnt THEN lo + 1 ELSE lo
    IN  IF cnt = 0 THEN {NaN}
        ELSE IF s[lo + 1].k = "inf" \/ s[hi + 1].k = "inf" THEN {Inf, NaN}
        ELSE {Lerp(s[lo + 1], s[hi + 1], frac)}

\* Series.notna().any()
AnyNotNA(vals) == \E i \in 1..Len(vals) : NotNA(vals[i])

\* truth value of a float or None: None and 0.0 are false, NaN and inf are true
Truthy(v) == ~(v.k = "none" \/ (IsNum(v) /\ v.n = 0))

-----------------------------------------------------------------------------
(* Tooltip strings *)

EmptyText == [t |-> "empty", v |-> 0]     \* ""
InfText == [t |-> "inf", v |-> 0]         \* "inf"
NumText(kind, v) == [t |-> kind, v |-> v]

\* f"{float(x):.1f}": x rounded to tenths (ties to even), kept as a count of tenths
RoundTenths(x) ==
    LET t == (10 * x.n) \div x.d
        rem == 10 * x.n - t * x.d
    IN  IF 2 * rem > x.d THEN t + 1
        ELSE IF 2 * rem < x.d THEN t
        ELSE IF t % 2 = 0 THEN t ELSE t + 1

\* _fmt_float1
FmtFloat1(x) ==
    IF IsNA(x) THEN EmptyText
    ELSE IF x.k = "inf" THEN InfText
    ELSE NumText("tenths", RoundTenths(x))

\* _fmt_int: "" or f"{int(x):,}" (cases and population are never infinite)
FmtInt(x) == IF IsNA(x) THEN EmptyText ELSE NumText("int", x.n \div x.d)

-----------------------------------------------------------------------------
(* Name helpers and the GeoJSON loader (main.py, build_map.py) *)

DISTRICT_KEYS == <<"shapeName", "NAME_2", "name", "district", "DISTRICT">>

\* whether pick_geo_name finds a key (otherwise it raises KeyError)
HasGeoName(props) == \E i \in 1..Len(DISTRICT_KEYS) : DISTRICT_KEYS[i] \in DOMAIN props

\* a variant of pick_geo_name that takes the last key present
pick_geo_name_last(props) ==
    LET i == CHOOSE j \in 1..Len(DISTRICT_KEYS) :
                 /\ DISTRICT_KEYS[j] \in DOMAIN props
                 /\ \A l \in (j + 1)..Len(DISTRICT_KEYS) : DISTRICT_KEYS[l] \notin DOMAIN props
    IN  PyStr(props[DISTRICT_KEYS[i]])

\* pick_geo_name: str() of the value of the first key of DISTRICT_KEYS present
pick_geo_name(props) ==
    LET i == CHOOSE j \in 1..Len(DISTRICT_KEYS) :
                 /\ DISTRICT_KEYS[j] \in DOMAIN props
                 /\ \A l \in 1..(j - 1) : DISTRICT_KEYS[l] \notin DOMAIN props
    IN  PyStr(props[DISTRICT_KEYS[i]])

\* the body of load_geojson's loop: props["_district_norm"], props["district"]
LabelFeature(feat) ==
    LET label == pick_geo_name(feat.properties)
    IN  [feat EXCEPT !.properties =
            ("_district_norm" :> norm(label)) @@ ("district" :> label) @@ feat.properties]

\* load_geojson: the labelled features, or the KeyError of the first feature
\* that has none of the keys
load_geojson(features) ==
    IF \A i \in 1..Len(features) : HasGeoName(features[i].properties)
    THEN [ok |-> TRUE, features |-> [i \in 1..Len(features) |-> LabelFeature(features[i])]]
    ELSE [ok |-> FALSE, features |-> <<>>]

-----------------------------------------------------------------------------
(* The case loader (main.py load_all, build_map.py load_month, build_all.py) *)

\* a CSV cell that is not a number
Junk == [k |-> "text", n |-> 0, d |-> 1]

\* pd.to_numeric(errors="coerce").astype("Int64")
ToNumeric(v) == IF IsNum(v) THEN v ELSE NaN

\* a variant of the derivation that recomputes every row's incidence
DeriveAlways(row) == Incidence(row.cases, row.population)

\* need = isna(); df.loc[need, "incidence_per_100k"] = cases / population * 1e5
DeriveIncidence(row) ==
    IF IsNA(row.incidence_per_100k)
    THEN Incidence(row.cases, row.population)
    ELSE row.incidence_per_100k

\* read_csv, the numeric coercion of year and month, the derived incidence
load_frame(rows) ==
    [i \in 1..Len(rows) |->
        [rows[i] EXCEPT !.year = ToNumeric(rows[i].year),
                        !.month = ToNumeric(rows[i].month),
                        !.incidence_per_100k = DeriveIncidence(rows[i])]]

\* load_all: load_frame plus the district_norm column
load_all(rows) ==
    LET frame == load_frame(rows)
    IN  [i \in 1..Len(frame) |->
            [year |-> frame[i].year, month |-> frame[i].month, district |-> frame[i].district,
             cases |-> frame[i].cases, population |-> frame[i].population,
             incidence_per_100k |-> frame[i].incidence_per_100k,
             district_norm |-> norm(frame[i].district)]]

\* df[(df["year"] == y) & (df["month"] == m)]: a missing year or month never matches
MonthSlice(frame, y, m) ==
    SelectSeq(frame, LAMBDA r : IsNum(r.year) /\ IsNum(r.month) /\ r.year = Num(y) /\ r.month = Num(m))

\* load_month
load_month(rows, y, m) == MonthSlice(load_all(rows), y, m)

\* a column of a frame
Column(frame, c) == [i \in 1..Len(frame) |-> frame[i][c]]

-----------------------------------------------------------------------------
(* Month keys *)

DigitChars == <<"0","1","2","3","4","5","6","7","8","9">>

\* str(n) of a natural number
RECURSIVE DigitsOf(_)
DigitsOf(n) ==
    IF n < 10 THEN <<DigitChars[n + 1]>>
    ELSE DigitsOf(n \div 10) \o <<DigitChars[(n % 10) + 1]>>

\* f"{m:02d}"
Pad2(m) == IF m < 10 THEN <<"0">> \o DigitsOf(m) ELSE DigitsOf(m)

\* month_key: f"{int(y)}-{int(m):02d}"
month_key(y, m) == DigitsOf(y) \o <<"-">> \o Pad2(m)

\* int(s) of a string of digits
RECURSIVE ParseInt(_)
ParseInt(s) ==
    IF s = <<>> THEN 0
    ELSE 10 * ParseInt(SubSeq(s, 1, Len(s) - 1))
         + ((CHOOSE i \in 1..10 : DigitChars[i] = s[Len(s)]) - 1)

\* y, m = map(int, key.split("-")) for a key with one dash
ParseKey(key) ==
    LET dash == CHOOSE i \in 1..Len(key) : key[i] = "-"
    IN  <<ParseInt(SubSeq(key, 1, dash - 1)), ParseInt(SubSeq(key, dash + 1, Len(key)))>>

\* the (year, month) pairs of the rows where both are present
YearMonthPairs(frame) ==
    {<<frame[i].year.n, frame[i].month.n>> : i \in {j \in 1..Len(frame) : IsNum(frame[j].year) /\ IsNum(frame[j].month)}}

PairLess(a, b) == a[1] < b[1] \/ (a[1] = b[1] /\ a[2] < b[2])

\* sorted(...) / sort_values(["year", "month"]) of a set of pairs
RECURSIVE SortedPairs(_)
SortedPairs(S) ==
    IF S = {} THEN <<>>
    ELSE LET least == CHOOSE a \in S : \A b \in S \ {a} : PairLess(a, b)
         IN  <<least>> \o SortedPairs(S \ {least})

\* the month keys the dashboard falls back to when the table has no month
DefaultMonths == <<month_key(2024, 1)>>

\* main.py months_sorted: the distinct months in order as keys, or ["2024-01"]
MonthsSorted(frame) ==
    LET ps == SortedPairs(YearMonthPairs(frame))
    IN  IF ps = <<>> THEN DefaultMonths
        ELSE [i \in 1..Len(ps) |-> month_key(ps[i][1], ps[i][2])]

-----------------------------------------------------------------------------
(* The month merge *)

MetricCols == {"incidence_per_100k", "cases", "population"}

\* whether set_index("district_norm")...to_dict("index") succeeds: pandas
\* raises ValueError when the index is not unique
UniqueIndex(mdf) ==
    \A i, j \in 1..Len(mdf) : mdf[i].district_norm = mdf[j].district_norm => i = j

\* the dict of to_dict("index"): district_norm -> the metric columns of its row
ToDictIndex(mdf) ==
    [key \in {mdf[i].district_norm : i \in 1..Len(mdf)} |->
        LET r == mdf[CHOOSE i \in 1..Len(mdf) : mdf[i].district_norm = key]
        IN  [c \in MetricCols |-> r[c]]]

\* dict.get(key) on metrics, None when the key is absent
NoRow == [c \in MetricCols |-> None]
MetricsGet(metrics, key) == IF key \in DOMAIN metrics THEN metrics[key] ELSE NoRow

\* float(x) if x is not None and pd.notna(x) else None
FloatOrNone(x) == IF NotNA(x) THEN x ELSE None

\* float(x) if pd.notna(x) else float("nan")
FloatOrNaN(x) == IF NotNA(x) THEN x ELSE NaN

\* a variant of the merge of one feature that fills a missing metric with 0
MergedPropsZeroFill(props_base, metrics) ==
    LET v == MetricsGet(metrics, props_base["_district_norm"])
        z(x) == IF NotNA(x) THEN x ELSE Num(0)
    IN  ("_district_norm" :> props_base["_district_norm"]) @@
        ("district" :> props_base["district"]) @@
        ("incidence_per_100k" :> z(v["incidence_per_100k"])) @@
        ("cases" :> z(v["cases"])) @@
        ("population" :> z(v["population"])) @@
        ("cases_text" :> FmtInt(z(v["cases"]))) @@
        ("inc_text" :> FmtFloat1(z(v["incidence_per_100k"]))) @@
        ("pop_text" :> FmtInt(z(v["population"])))

\* attach_static_metrics, the properties p of one feature
MergedProps(props_base, metrics) ==
    LET v == MetricsGet(metrics, props_base["_district_norm"])
        inc == FloatOrNone(v["incidence_per_100k"])
        cases == FloatOrNone(v["cases"])
        pop == FloatOrNone(v["population"])
    IN  ("_district_norm" :> props_base["_district_norm"]) @@
        ("district" :> props_base["district"]) @@
        ("incidence_per_100k" :> inc) @@
        ("cases" :> cases) @@
        ("population" :> pop) @@
        ("cases_text" :> FmtInt(cases)) @@
        ("inc_text" :> FmtFloat1(inc)) @@
        ("pop_text" :> FmtInt(pop))

\* attach_static_metrics: a new feature list in the order of gj_base, or the
\* ValueError of to_dict
attach_static_metrics(gj_feats, mdf) ==
    IF ~UniqueIndex(mdf) THEN [ok |-> FALSE, features |-> <<>>]
    ELSE LET metrics == ToDictIndex(mdf)
         IN  [ok |-> TRUE,
              features |-> [i \in 1..Len(gj_feats) |->
                 [type |-> gj_feats[i].type, geometry |-> gj_feats[i].geometry,
                  properties |-> MergedProps(gj_feats[i].properties, metrics)]]]

\* build_map.main, the properties of one feature after the merge loop
\* (the loop writes into the loaded feature's own properties)
BuildMapProps(props, metrics) ==
    LET found == props["_district_norm"] \in DOMAIN metrics
        vals == MetricsGet(metrics, props["_district_norm"])
        inc == IF found THEN FloatOrNaN(vals["incidence_per_100k"]) ELSE NaN
        cases == IF found THEN FloatOrNone(vals["cases"]) ELSE None
        pop == IF found THEN FloatOrNone(vals["population"]) ELSE None
    IN  ("incidence_per_100k" :> inc) @@
        ("cases" :> cases) @@
        ("population" :> pop) @@
        ("cases_text" :> FmtInt(cases)) @@
        ("inc_text" :> FmtFloat1(inc)) @@
        ("pop_text" :> FmtInt(pop)) @@
        props

-----------------------------------------------------------------------------
(* The colour scale *)

\* main.py vmax_inc, vmax_cases:
\* float(col.dropna().quantile(0.95)) if col.notna().any() else 1.0
DashboardVmax(vals) == IF AnyNotNA(vals) THEN QuantileOutcomes(vals, 95) ELSE {Num(1)}

\* build_all.py global_vmax: float(col.quantile(0.99)) if not df.empty else 1.0
BatchVmax(frame) ==
    IF frame # <<>> THEN QuantileOutcomes(Column(frame, "incidence_per_100k"), 99) ELSE {Num(1)}

\* build_map.py vmax:
\* args.vmax or (mdf["incidence_per_100k"].quantile(0.95) if not mdf.empty else 1.0)
BuildMapVmax(arg, mdf) ==
    IF Truthy(arg) THEN {arg}
    ELSE IF mdf # <<>> THEN QuantileOutcomes(Column(mdf, "incidence_per_100k"), 95)
    ELSE {Num(1)}

-----------------------------------------------------------------------------
(* The renderer: what the browser draws for one feature *)

NAN_COLOR == "#eeeeee"
PALETTE == "Viridis256"

\* a GeoJSONDataSource column cell: a JSON null or a missing property reads as NaN
ClientValue(v) == IF IsNA(v) THEN NaN ELSE v

\* a variant of zero_to_nan that keeps zero: v >= 0
zero_to_nan_keeps_zero(v) == IF IsFinite(v) THEN v ELSE NaN

\* zero_to_nan: (isFinite(v) && v > 0) ? v : NaN
zero_to_nan(v) == IF IsFinite(v) /\ v.n > 0 THEN v ELSE NaN

\* LinearColorMapper: NaN gets nan_color, any other value a colour of the palette
MapColor(v) == IF v.k = "nan" THEN NAN_COLOR ELSE PALETTE

\* main.py glyph: fill_color = {"field": field, "transform": zero_to_nan}; a
\* cell's colour is decided by its transformed value alone, NaN being drawn in
\* the mapper's nan_color ("zeros render as grey via nan_color")
DashboardFill(props, field) == MapColor(zero_to_nan(ClientValue(props[field])))

\* the patches the browser draws for a source and a colour field
Render(source, field) == [i \in 1..Len(source) |-> DashboardFill(source[i].properties, field)]

\* build_map.py glyph: fill_color = {"field": "incidence_per_100k", "transform": color_mapper}
StaticFill(props) == MapColor(ClientValue(props["incidence_per_100k"]))

-----------------------------------------------------------------------------
(* Inputs *)

Feature(key, label, geometry) ==
    [type |-> "Feature", geometry |-> geometry, properties |-> (key :> label)]

FeatColombo == Feature("shapeName", ColomboDistrict, "polygon-1")
FeatGampaha == Feature("NAME_2", Gampaha, "polygon-2")
FeatNameless == Feature("ISO", LK, "polygon-3")

\* the geo files the two scripts are run on
GeoInputs ==
    { <<FeatColombo, FeatGampaha>>, <<FeatGampaha>>, <<FeatColombo, FeatNameless>> }

MonthCells == {Num(1), Num(2)}
DistrictCells == {Colombo, Gampaha}

\* cases, population and incidence_per_100k cells of one row (NaN: a blank cell)
MetricCells ==
    { [cases |-> Num(100), population |-> Num(1000000), incidence_per_100k |-> NaN],
      [cases |-> Num(0),   population |-> Num(1000000), incidence_per_100k |-> NaN],
      [cases |-> NaN,      population |-> Num(1000000), incidence_per_100k |-> NaN],
      [cases |-> Num(100), population |-> Num(0),       incidence_per_100k |-> NaN],
      [cases |-> Num(0),   population |-> Num(0),       incidence_per_100k |-> NaN],
      [cases |-> Num(100), population |-> NaN,          incidence_per_100k |-> NaN],
      [cases |-> Num(100), population |-> Num(1000000), incidence_per_100k |-> Num(25)] }

RowInputs ==
    { [year |-> Num(2024), month |-> m, district |-> dn,
       cases |-> mc.cases, population |-> mc.population,
       incidence_per_100k |-> mc.incidence_per_100k] :
         m \in MonthCells, dn \in DistrictCells, mc \in MetricCells }

\* a row whose month cell is not a number
JunkRow ==
    [year |-> Num(2024), month |-> Junk, district |-> Colombo,
     cases |-> Num(100), population |-> Num(1000000), incidence_per_100k |-> NaN]

CsvInputs == UNION { [1..len -> RowInputs \cup {JunkRow}] : len \in 0..MaxRows }

Metrics == {"incidence_per_100k", "cases"}

\* no generator was created
NoGen == [start |-> <<>>, end |-> <<>>, y |-> 0, m |-> 0, out |-> <<>>]

NoUI ==
    [source |-> <<>>, field |-> "", fill |-> <<>>, high |-> None, bar_title |-> "", title |-> <<>>,
     month_select |-> <<>>, metric_select |-> "", slider_end |-> 0]

\* the empty dict
EmptyDict == [x \in {} |-> 0]

Init ==
    /\ prog \in {"main", "build_all"}
    /\ pc = "begin"
    /\ csv \in CsvInputs
    /\ geo \in GeoInputs
    /\ df_all = <<>>
    /\ gj_base = <<>>
    /\ months_sorted = <<>>
    /\ vmax_map = EmptyDict
    /\ GEOJSON_BY_MONTH = EmptyDict
    /\ df = <<>>
    /\ global_vmax = None
    /\ pairs = <<>>
    /\ built = <<>>
    /\ index_page = <<>>
    /\ ui = NoUI
    /\ name_in = <<>>
    /\ name_out = <<>>
    /\ gen = NoGen

-----------------------------------------------------------------------------
(* app/main.py, module level, in source order *)

\* df_all = load_all(CSV)
LoadAll ==
    /\ prog = "main" /\ pc = "begin"
    /\ df_all' = load_all(csv)
    /\ pc' = "load_geojson"
    /\ UNCHANGED <<prog, csv, geo, gj_base, months_sorted, vmax_map, GEOJSON_BY_MONTH,
                   df, global_vmax, pairs, built, index_page, ui, name_in, name_out, gen>>

\* gj_base = load_geojson(GEO); a KeyError ends the script
LoadGeojson ==
    /\ prog = "main" /\ pc = "load_geojson"
    /\ LET r == load_geojson(geo)
       IN  IF r.ok THEN gj_base' = r.features /\ pc' = "months"
                   ELSE gj_base' = gj_base /\ pc' = "KeyError"
    /\ UNCHANGED <<prog, csv, geo, df_all, months_sorted, vmax_map, GEOJSON_BY_MONTH,
                   df, global_vmax, pairs, built, index_page, ui, name_in, name_out, gen>>

\* months_sorted = ... or ["2024-01"]
ComputeMonths ==
    /\ prog = "main" /\ pc = "months"
    /\ months_sorted' = MonthsSorted(df_all)
    /\ pc' = "vmax"
    /\ UNCHANGED <<prog, csv, geo, df_all, gj_base, vmax_map, GEOJSON_BY_MONTH,
                   df, global_vmax, pairs, built, index_page, ui, name_in, name_out, gen>>

\* vmax_inc, vmax_cases, vmax_map
ComputeVmax ==
    /\ prog = "main" /\ pc = "vmax"
    /\ \E vmax_inc \in DashboardVmax(Column(df_all, "incidence_per_100k")),
          vmax_cases \in DashboardVmax(Column(df_all, "cases")) :
            vmax_map' = [incidence_per_100k |-> vmax_inc, cases |-> vmax_cases]
    /\ pc' = "precompute"
    /\ UNCHANGED <<prog, csv, geo, df_all, gj_base, months_sorted, GEOJSON_BY_MONTH,
                   df, global_vmax, pairs, built, index_page, ui, name_in, name_out, gen>>

\* one iteration of "for key in months_sorted": GEOJSON_BY_MONTH[key] = ...;
\* the ValueError of to_dict ends the script
PrecomputeMonth ==
    /\ prog = "main" /\ pc = "precompute"
    /\ Cardinality(DOMAIN GEOJSON_BY_MONTH) < Len(months_sorted)
    /\ LET key == months_sorted[Cardinality(DOMAIN GEOJSON_BY_MONTH) + 1]
           ym == ParseKey(key)
           mdf == MonthSlice(df_all, ym[1], ym[2])
           gj == attach_static_metrics(gj_base, mdf)
       IN  IF gj.ok
           THEN GEOJSON_BY_MONTH' = (key :> gj.features) @@ GEOJSON_BY_MONTH /\ pc' = pc
           ELSE GEOJSON_BY_MONTH' = GEOJSON_BY_MONTH /\ pc' = "ValueError"
    /\ UNCHANGED <<prog, csv, geo, df_all, gj_base, months_sorted, vmax_map,
                   df, global_vmax, pairs, built, index_page, ui, name_in, name_out, gen>>

MetricLabel(field) == IF field = "incidence_per_100k" THEN "incidence per 100k" ELSE "cases"
BarTitle(field) == IF field = "incidence_per_100k" THEN "Incidence/100k" ELSE "Cases"

\* f"<h2>Dengue {metric_label} - {calendar.month_name[m]} {y}</h2>"
TitleText(field, key) == <<MetricLabel(field), ParseKey(key)[2], ParseKey(key)[1]>>

\* the initial state, the figure and the widgets; int(max(1, vmax_inc)) of the
\* slider raises OverflowError on inf, which ends the script
StartUI ==
    /\ prog = "main" /\ pc = "precompute"
    /\ Cardinality(DOMAIN GEOJSON_BY_MONTH) = Len(months_sorted)
    /\ LET start_key == months_sorted[1]
           current_metric == "incidence_per_100k"
           vmax_inc == vmax_map["incidence_per_100k"]
       IN  IF vmax_inc.k = "inf"
           THEN ui' = ui /\ pc' = "OverflowError"
           ELSE /\ ui' = [source |-> GEOJSON_BY_MONTH[start_key],
                          field |-> current_metric,
                          fill |-> Render(GEOJSON_BY_MONTH[start_key], current_metric),
                          high |-> vmax_map[current_metric],
                          bar_title |-> "Incidence/100k",
                          title |-> TitleText(current_metric, start_key),
                          month_select |-> start_key,
                          metric_select |-> current_metric,
                          slider_end |-> IF IsNum(vmax_inc) /\ Less(Num(1), vmax_inc)
                                         THEN vmax_inc.n \div vmax_inc.d ELSE 1]
                /\ pc' = "serve"
    /\ UNCHANGED <<prog, csv, geo, df_all, gj_base, months_sorted, vmax_map, GEOJSON_BY_MONTH,
                   df, global_vmax, pairs, built, index_page, name_in, name_out, gen>>

\* on_month_change, after the Select took the new value
on_month_change ==
    /\ prog = "main" /\ pc = "serve"
    /\ \E new \in {months_sorted[i] : i \in 1..Len(months_sorted)} \ {ui.month_select} :
         ui' = [ui EXCEPT !.month_select = new,
                          !.source = GEOJSON_BY_MONTH[new],
                          !.fill = Render(GEOJSON_BY_MONTH[new], ui.field),
                          !.title = TitleText(ui.metric_select, new)]
    /\ UNCHANGED <<prog, pc, csv, geo, df_all, gj_base, months_sorted, vmax_map,
                   GEOJSON_BY_MONTH, df, global_vmax, pairs, built, index_page, name_in, name_out, gen>>

\* on_metric_change without the mapper update
on_metric_change_stale_high ==
    /\ prog = "main" /\ pc = "serve"
    /\ \E new \in Metrics \ {ui.metric_select} :
         ui' = [ui EXCEPT !.metric_select = new,
                          !.field = new,
                          !.fill = Render(ui.source, new),
                          !.bar_title = BarTitle(new),
                          !.title = TitleText(new, ui.month_select)]
    /\ UNCHANGED <<prog, pc, csv, geo, df_all, gj_base, months_sorted, vmax_map,
                   GEOJSON_BY_MONTH, df, global_vmax, pairs, built, index_page, name_in, name_out, gen>>

\* on_metric_change, after the Select took the new value
on_metric_change ==
    /\ prog = "main" /\ pc = "serve"
    /\ \E new \in Metrics \ {ui.metric_select} :
         ui' = [ui EXCEPT !.metric_select = new,
                          !.field = new,
                          !.fill = Render(ui.source, new),
                          !.high = vmax_map[new],
                          !.bar_title = BarTitle(new),
                          !.title = TitleText(new, ui.month_select)]
    /\ UNCHANGED <<prog, pc, csv, geo, df_all, gj_base, months_sorted, vmax_map,
                   GEOJSON_BY_MONTH, df, global_vmax, pairs, built, index_page, name_in, name_out, gen>>

-----------------------------------------------------------------------------
(* app/build_map.py main(), run as a subprocess by build_all.py *)

BuildFailed ==
    [ok |-> FALSE, year |-> 0, month |-> 0, high |-> None, features |-> <<>>, fill |-> <<>>]

\* main(): the possible results of one run (the page written, or a failed run:
\* KeyError of load_geojson, ValueError of to_dict)
build_map_main(features, rows, year, month, vmax_arg) ==
    LET gj == load_geojson(features)
        mdf == load_month(rows, year, month)
        metrics == ToDictIndex(mdf)
    IN  IF ~gj.ok \/ ~UniqueIndex(mdf) THEN {BuildFailed}
        ELSE { [ok |-> TRUE, year |-> year, month |-> month, high |-> vmax,
                features |-> [i \in 1..Len(gj.features) |->
                    [gj.features[i] EXCEPT !.properties = BuildMapProps(@, metrics)]],
                fill |-> [i \in 1..Len(gj.features) |->
                    StaticFill(BuildMapProps(gj.features[i].properties, metrics))]] :
               vmax \in BuildMapVmax(vmax_arg, mdf) }

-----------------------------------------------------------------------------
(* app/build_all.py *)

\* df = pd.read_csv(...), the coercion and the derived incidence
ReadCsv ==
    /\ prog = "build_all" /\ pc = "begin"
    /\ df' = load_frame(csv)
    /\ pc' = "global_vmax"
    /\ UNCHANGED <<prog, csv, geo, df_all, gj_base, months_sorted, vmax_map, GEOJSON_BY_MONTH,
                   global_vmax, pairs, built, index_page, ui, name_in, name_out, gen>>

\* global_vmax = ...
GlobalVmax ==
    /\ prog = "build_all" /\ pc = "global_vmax"
    /\ global_vmax' \in BatchVmax(df)
    /\ pc' = "pairs"
    /\ UNCHANGED <<prog, csv, geo, df_all, gj_base, months_sorted, vmax_map, GEOJSON_BY_MONTH,
                   df, pairs, built, index_page, ui, name_in, name_out, gen>>

\* pairs = sorted({...})
ComputePairs ==
    /\ prog = "build_all" /\ pc = "pairs"
    /\ pairs' = SortedPairs(YearMonthPairs(df))
    /\ pc' = "build"
    /\ UNCHANGED <<prog, csv, geo, df_all, gj_base, months_sorted, vmax_map, GEOJSON_BY_MONTH,
                   df, global_vmax, built, index_page, ui, name_in, name_out, gen>>

\* one iteration of "for y, m in pairs": subprocess.run([... "--vmax",
\* str(global_vmax)], check=True); str() and argparse's float() give the same
\* float back, "nan" and "inf" included; a failed run raises CalledProcessError
RunBuildMap ==
    /\ prog = "build_all" /\ pc = "build"
    /\ Len(built) < Len(pairs)
    /\ LET ym == pairs[Len(built) + 1]
       IN  \E run \in build_map_main(geo, csv, ym[1], ym[2], global_vmax) :
             IF run.ok THEN built' = Append(built, run) /\ pc' = pc
                       ELSE built' = built /\ pc' = "CalledProcessError"
    /\ UNCHANGED <<prog, csv, geo, df_all, gj_base, months_sorted, vmax_map, GEOJSON_BY_MONTH,
                   df, global_vmax, pairs, index_page, ui, name_in, name_out, gen>>

\* the index page: one entry (month, year) per page built
WriteIndex ==
    /\ prog = "build_all" /\ pc = "build"
    /\ Len(built) = Len(pairs)
    /\ index_page' = [i \in 1..Len(built) |-> <<built[i].month, built[i].year>>]
    /\ pc' = "done"
    /\ UNCHANGED <<prog, csv, geo, df_all, gj_base, months_sorted, vmax_map, GEOJSON_BY_MONTH,
                   df, global_vmax, pairs, built, ui, name_in, name_out, gen>>

Next ==
    \/ LoadAll
    \/ LoadGeojson
    \/ ComputeMonths
    \/ ComputeVmax
    \/ PrecomputeMonth
    \/ StartUI
    \/ on_month_change
    \/ on_metric_change
    \/ ReadCsv
    \/ GlobalVmax
    \/ ComputePairs
    \/ RunBuildMap
    \/ WriteIndex

Spec == Init /\ [][Next]_vars

-----------------------------------------------------------------------------
(* The geo loader on its own: the dashboard's start-up on an empty case table *)

GeoKeys == {"shapeName", "NAME_2", "name", "district", "DISTRICT", "ISO"}

\* the value each property holds in the input files (name holds a JSON null)
GeoValue(key) ==
    CASE key = "shapeName" -> ColomboDistrict
      [] key = "NAME_2" -> Gampaha
      [] key = "name" -> PyNone
      [] key = "district" -> Kandy
      [] key = "DISTRICT" -> GALLE
      [] OTHER -> LK

PropBags ==
    { [key \in ks |-> GeoValue(key)] : ks \in {t \in SUBSET GeoKeys : Cardinality(t) <= MaxProps} }

GeoFileInputs ==
    UNION { [1..len -> {[type |-> "Feature", geometry |-> "polygon", properties |-> b] :
                          b \in PropBags}] : len \in 0..MaxFeatures }

InitGeo ==
    /\ prog = "main"
    /\ pc = "load_geojson"
    /\ csv = <<>>
    /\ geo \in GeoFileInputs
    /\ df_all = <<>>
    /\ gj_base = <<>>
    /\ months_sorted = <<>>
    /\ vmax_map = EmptyDict
    /\ GEOJSON_BY_MONTH = EmptyDict
    /\ df = <<>>
    /\ global_vmax = None
    /\ pairs = <<>>
    /\ built = <<>>
    /\ index_page = <<>>
    /\ ui = NoUI
    /\ name_in = <<>>
    /\ name_out = <<>>
    /\ gen = NoGen

SpecGeo == InitGeo /\ [][LoadGeojson]_vars

-----------------------------------------------------------------------------
(* data_utils.py month_iter on its own, drawn to exhaustion as make_demo does *)

\* the year of the default --start and --end
FirstYear == 2024

\* "Y-M" strings that parse to integers, month parts in and around 1..12
IterKeys == { month_key(y, m) : y \in FirstYear..(FirstYear + MaxYears), m \in 0..13 }

InitIter ==
    /\ prog = "month_iter"
    /\ pc = "call"
    /\ csv = <<>>
    /\ geo = <<>>
    /\ df_all = <<>>
    /\ gj_base = <<>>
    /\ months_sorted = <<>>
    /\ vmax_map = EmptyDict
    /\ GEOJSON_BY_MONTH = EmptyDict
    /\ df = <<>>
    /\ global_vmax = None
    /\ pairs = <<>>
    /\ built = <<>>
    /\ index_page = <<>>
    /\ ui = NoUI
    /\ name_in = <<>>
    /\ name_out = <<>>
    /\ \E start \in IterKeys, end \in IterKeys :
         gen = [start |-> start, end |-> end, y |-> 0, m |-> 0, out |-> <<>>]

\* (y < y2) or (y == y2 and m <= m2)
LoopCond(y, m, y2, m2) == y < y2 \/ (y = y2 /\ m <= m2)

\* m += 1; if m == 13: m = 1; y += 1
Advance(y, m) == IF m + 1 = 13 THEN <<y + 1, 1>> ELSE <<y, m + 1>>

\* y1, m1 = map(int, start.split("-")); y, m = y1, m1
month_iter_begin ==
    /\ prog = "month_iter" /\ pc = "call"
    /\ gen' = [gen EXCEPT !.y = ParseKey(gen.start)[1], !.m = ParseKey(gen.start)[2]]
    /\ pc' = "loop"
    /\ UNCHANGED <<prog, csv, geo, df_all, gj_base, months_sorted, vmax_map, GEOJSON_BY_MONTH,
                   df, global_vmax, pairs, built, index_page, ui, name_in, name_out>>

\* one turn of the loop: yield y, m and step to the next month
month_iter_yield ==
    /\ prog = "month_iter" /\ pc = "loop"
    /\ LoopCond(gen.y, gen.m, ParseKey(gen.end)[1], ParseKey(gen.end)[2])
    /\ Len(gen.out) < MaxYield
    /\ gen' = [gen EXCEPT !.out = Append(gen.out, <<gen.y, gen.m>>),
                          !.y = Advance(gen.y, gen.m)[1],
                          !.m = Advance(gen.y, gen.m)[2]]
    /\ UNCHANGED <<prog, pc, csv, geo, df_all, gj_base, months_sorted, vmax_map, GEOJSON_BY_MONTH,
                   df, global_vmax, pairs, built, index_page, ui, name_in, name_out>>

\* the loop condition is false: the generator is exhausted
month_iter_return ==
    /\ prog = "month_iter" /\ pc = "loop"
    /\ ~LoopCond(gen.y, gen.m, ParseKey(gen.end)[1], ParseKey(gen.end)[2])
    /\ pc' = "done"
    /\ UNCHANGED <<prog, csv, geo, df_all, gj_base, months_sorted, vmax_map, GEOJSON_BY_MONTH,
                   df, global_vmax, pairs, built, index_page, ui, name_in, name_out, gen>>

NextIter == month_iter_begin \/ month_iter_yield \/ month_iter_return

SpecIter == InitIter /\ [][NextIter]_vars

-----------------------------------------------------------------------------
(* norm on its own *)

Fragments ==
    { <<"D","i">>, <<"s","t","r","i","c","t">>, <<" ">>, <<"\t">>,
      <<"D","i","s","t","r","i","c","t">>, Colombo }

RECURSIVE Concat(_)
Concat(parts) == IF parts = <<>> THEN <<>> ELSE Head(parts) \o Concat(Tail(parts))

NormInputs ==
    {PyNone} \cup { Concat(parts) : parts \in UNION { [1..len -> Fragments] : len \in 0..MaxTokens } }

InitNorm ==
    /\ prog = "norm"
    /\ pc = "begin"
    /\ csv = <<>>
    /\ geo = <<>>
    /\ df_all = <<>>
    /\ gj_base = <<>>
    /\ months_sorted = <<>>
    /\ vmax_map = EmptyDict
    /\ GEOJSON_BY_MONTH = EmptyDict
    /\ df = <<>>
    /\ global_vmax = None
    /\ pairs = <<>>
    /\ built = <<>>
    /\ index_page = <<>>
    /\ ui = NoUI
    /\ name_in \in NormInputs
    /\ name_out = <<>>
    /\ gen = NoGen

\* key = norm(label)
NormOnce ==
    /\ prog = "norm" /\ pc = "begin"
    /\ name_out' = <<norm(name_in)>>
    /\ pc' = "normed"
    /\ UNCHANGED <<prog, csv, geo, df_all, gj_base, months_sorted, vmax_map, GEOJSON_BY_MONTH,
                   df, global_vmax, pairs, built, index_page, ui, name_in, gen>>

\* norm applied to a key that is already normalized
NormAgain ==
    /\ prog = "norm" /\ pc = "normed"
    /\ name_out' = Append(name_out, norm(name_out[1]))
    /\ pc' = "done"
    /\ UNCHANGED <<prog, csv, geo, df_all, gj_base, months_sorted, vmax_map, GEOJSON_BY_MONTH,
                   df, global_vmax, pairs, built, index_page, ui, name_in, gen>>

NextNorm == NormOnce \/ NormAgain

SpecNorm == InitNorm /\ [][NextNorm]_vars

-----------------------------------------------------------------------------
(* Properties *)

\* whether the case table holds a row of month (y, m) whose district normalizes to key
HasCaseRow(key, y, m) ==
    \E i \in 1..Len(csv) :
        /\ csv[i].year = Num(y) /\ csv[i].month = Num(m)
        /\ norm(csv[i].district) = key

\* the metrics of a merged feature are all missing (None or NaN), none of them 0
AllMissing(props) == \A c \in MetricCols : IsNA(props[c]) /\ props[c] # Num(0)

UnmatchedMissing(feats, y, m) ==
    \A i \in 1..Len(feats) :
        ~HasCaseRow(feats[i].properties["_district_norm"], y, m) => AllMissing(feats[i].properties)

\* C1: in every month merged by main.py (attach_static_metrics) and in every
\* page built by build_map.py, a feature whose normalized key has no case row
\* in that month carries missing incidence, cases and population, never 0; so
\* when no row matches the month every feature is missing.
C1_UnmatchedIsMissing ==
    /\ \A key \in DOMAIN GEOJSON_BY_MONTH :
          UnmatchedMissing(GEOJSON_BY_MONTH[key], ParseKey(key)[1], ParseKey(key)[2])
    /\ \A j \in 1..Len(built) : UnmatchedMissing(built[j].features, built[j].year, built[j].month)

\* C1 witness: a merged month in which one feature has a case row with a
\* number and another feature has no row and is missing
C1_Witness ==
    \E key \in DOMAIN GEOJSON_BY_MONTH :
        LET feats == GEOJSON_BY_MONTH[key]
            ym == ParseKey(key)
        IN  \E i, j \in 1..Len(feats) :
              /\ ~HasCaseRow(feats[i].properties["_district_norm"], ym[1], ym[2])
              /\ feats[i].properties["incidence_per_100k"] = None
              /\ HasCaseRow(feats[j].properties["_district_norm"], ym[1], ym[2])
              /\ IsNum(feats[j].properties["incidence_per_100k"])

\* the loaded incidence of row i against the cells of the file
LoadedIncidenceRight(frame, i) ==
    LET cell == csv[i]
        inc == frame[i].incidence_per_100k
    IN  /\ (IsNA(cell.incidence_per_100k) /\ IsNum(cell.cases) /\ IsNum(cell.population)
              /\ cell.population.n > 0)
            => /\ IsNum(inc)
               /\ inc.n * cell.population.n * cell.cases.d
                    = cell.cases.n * PER_100K * inc.d * cell.population.d
        /\ NotNA(cell.incidence_per_100k) => inc = cell.incidence_per_100k

\* C2: after load_all (main.py) and after the load at the top of build_all.py,
\* a row with a blank incidence, cases present and population > 0 holds
\* cases / population x 100,000, and a row with an explicit incidence holds
\* that value unchanged.
C2_IncidenceDerivedOrKept ==
    /\ (prog = "main" /\ pc # "begin")
         => Len(df_all) = Len(csv) /\ \A i \in 1..Len(csv) : LoadedIncidenceRight(df_all, i)
    /\ (prog = "build_all" /\ pc # "begin")
         => Len(df) = Len(csv) /\ \A i \in 1..Len(csv) : LoadedIncidenceRight(df, i)

\* C2 witness: a loaded table with a derived incidence of 10 and an explicit
\* incidence of 25 kept although cases / population gives 10
C2_Witness ==
    /\ prog = "main" /\ pc # "begin"
    /\ \E i, j \in 1..Len(df_all) :
         /\ IsNA(csv[i].incidence_per_100k) /\ df_all[i].incidence_per_100k = Num(10)
         /\ csv[j].incidence_per_100k = Num(25) /\ df_all[j].incidence_per_100k = Num(25)
         /\ Incidence(csv[j].cases, csv[j].population) = Num(10)

\* a row without an explicit incidence whose incidence cannot be derived
UndefinedRow(cell) ==
    /\ IsNA(cell.incidence_per_100k)
    /\ IsNA(cell.population) \/ cell.population = Num(0) \/ IsNA(cell.cases)

\* the rows of the loaded table in month (y, m) whose district normalizes to key
RowsOf(key, y, m) ==
    {i \in 1..Len(csv) : csv[i].year = Num(y) /\ csv[i].month = Num(m)
                          /\ norm(csv[i].district) = key}

\* C3 as claimed: a row without explicit incidence whose population is zero or
\* missing, or whose cases is missing, loads with a missing incidence, and the
\* merged entry of its district has a missing incidence and an empty tooltip.
C3_UndefinedIncidenceIsMissing ==
    /\ (prog = "main" /\ pc # "begin")
         => \A i \in 1..Len(csv) :
               UndefinedRow(csv[i]) => IsNA(df_all[i].incidence_per_100k)
    /\ \A key \in DOMAIN GEOJSON_BY_MONTH :
          LET feats == GEOJSON_BY_MONTH[key]
              ym == ParseKey(key)
          IN  \A f \in 1..Len(feats) :
                \A i \in RowsOf(feats[f].properties["_district_norm"], ym[1], ym[2]) :
                   UndefinedRow(csv[i])
                     => /\ IsNA(feats[f].properties["incidence_per_100k"])
                        /\ feats[f].properties["inc_text"] = EmptyText

\* C4 as claimed: the merge of every month completes, and its output has one
\* entry per geo feature, the i-th carrying the key and the label of the i-th
\* feature.
C4_OneEntryPerFeature ==
    prog = "main"
      => /\ pc # "ValueError"
         /\ \A key \in DOMAIN GEOJSON_BY_MONTH :
               LET feats == GEOJSON_BY_MONTH[key]
               IN  /\ Len(feats) = Len(gj_base)
                   /\ \A i \in 1..Len(feats) :
                        /\ feats[i].properties["_district_norm"]
                             = gj_base[i].properties["_district_norm"]
                        /\ feats[i].properties["district"] = gj_base[i].properties["district"]

\* C5 as claimed: every page of a batch run is built with the upper bound
\* build_all.py computed and passed as --vmax, and the dashboard's
\* mapper.high is the fixed vmax_map entry of the selected metric.
C5_OneScaleForAllMonths ==
    /\ \A j \in 1..Len(built) : built[j].high = global_vmax
    /\ (prog = "main" /\ pc = "serve") => ui.high = vmax_map[ui.metric_select]

Positive(v) == IsNum(v) /\ v.n > 0

\* C6 as claimed: every upper bound of the colour scale is a defined, strictly
\* positive number, and the default 1.0 when the metric has no value.
C6_VmaxPositive ==
    /\ (prog = "main" /\ DOMAIN vmax_map # {})
         => /\ Positive(vmax_map["incidence_per_100k"]) /\ Positive(vmax_map["cases"])
            /\ ~AnyNotNA(Column(df_all, "incidence_per_100k"))
                 => vmax_map["incidence_per_100k"] = Num(1)
    /\ (prog = "build_all" /\ global_vmax # None)
         => /\ Positive(global_vmax)
            /\ ~AnyNotNA(Column(df, "incidence_per_100k")) => global_vmax = Num(1)
    /\ \A j \in 1..Len(built) : Positive(built[j].high)

\* the selected metric's loaded value for feature f in the selected month: the
\* value of its row, or NaN when it has no row
SelectedValue(f) ==
    LET ym == ParseKey(ui.month_select)
        rows == RowsOf(ui.source[f].properties["_district_norm"], ym[1], ym[2])
    IN  IF rows = {} THEN NaN ELSE df_all[CHOOSE i \in rows : TRUE][ui.field]

HasData(f) ==
    LET ym == ParseKey(ui.month_select)
    IN  RowsOf(ui.source[f].properties["_district_norm"], ym[1], ym[2]) # {}

LastRow(rows) == CHOOSE i \in rows : \A j \in rows : j <= i

\* C8 as claimed: with several rows of one district in a month the merge
\* completes and the district's entry carries the metrics of the last row.
C8_LastDuplicateWins ==
    prog = "main"
      => /\ pc # "ValueError"
         /\ \A key \in DOMAIN GEOJSON_BY_MONTH :
               LET feats == GEOJSON_BY_MONTH[key]
                   ym == ParseKey(key)
               IN  \A f \in 1..Len(feats) :
                     LET rows == RowsOf(feats[f].properties["_district_norm"], ym[1], ym[2])
                     IN  rows # {}
                           => \A c \in MetricCols :
                                feats[f].properties[c] = FloatOrNone(df_all[LastRow(rows)][c])

\* the label a property bag should get: the value of the first of shapeName,
\* NAME_2, name, district, DISTRICT that it holds
FirstNameValue(props) ==
    IF "shapeName" \in DOMAIN props THEN props["shapeName"]
    ELSE IF "NAME_2" \in DOMAIN props THEN props["NAME_2"]
    ELSE IF "name" \in DOMAIN props THEN props["name"]
    ELSE IF "district" \in DOMAIN props THEN props["district"]
    ELSE props["DISTRICT"]

Named(props) ==
    DOMAIN props \cap {"shapeName", "NAME_2", "name", "district", "DISTRICT"} # {}

\* C9: load_geojson labels each feature with the value of the first key present
\* in the order shapeName, NAME_2, name, district, DISTRICT and stores
\* norm(label); the features keep their order, count, geometry and other
\* properties; a feature with none of the keys makes the load fail with
\* KeyError and no dataset is returned.
C9_GeoLoad ==
    /\ pc = "months"
         => /\ \A i \in 1..Len(geo) : Named(geo[i].properties)
            /\ Len(gj_base) = Len(geo)
            /\ \A i \in 1..Len(geo) :
                 LET before == geo[i].properties
                     after == gj_base[i].properties
                 IN  /\ after["district"] = PyStr(FirstNameValue(before))
                     /\ after["_district_norm"] = norm(PyStr(FirstNameValue(before)))
                     /\ gj_base[i].geometry = geo[i].geometry
                     /\ \A key \in DOMAIN before \ {"district"} : after[key] = before[key]
    /\ pc = "KeyError"
         => /\ \E i \in 1..Len(geo) : ~Named(geo[i].properties)
            /\ gj_base = <<>>

\* C9 witness: a loaded file of two features, one holding NAME_2 and DISTRICT
\* and labelled by NAME_2, one holding only a key further down the list
C9_Witness ==
    /\ pc = "months" /\ Len(gj_base) = 2
    /\ \E i, j \in 1..Len(geo) :
         /\ DOMAIN geo[i].properties = {"NAME_2", "DISTRICT"}
         /\ gj_base[i].properties["district"] = Gampaha
         /\ gj_base[i].properties["_district_norm"] = Lower(Gampaha)
         /\ DOMAIN geo[j].properties = {"DISTRICT", "ISO"}
         /\ gj_base[j].properties["district"] = GALLE

\* C10 as claimed: norm(norm(s)) = norm(s) for every string s.
C10_NormIdempotent == pc = "done" => name_out[2] = name_out[1]

\* the view a selection determines, written from the selection alone
ViewOf(month, metric) ==
    [source |-> GEOJSON_BY_MONTH[month],
     field |-> metric,
     high |-> vmax_map[metric],
     bar_title |-> IF metric = "incidence_per_100k" THEN "Incidence/100k" ELSE "Cases",
     title |-> <<IF metric = "incidence_per_100k" THEN "incidence per 100k" ELSE "cases",
                 ParseKey(month)[2], ParseKey(month)[1]>>]

ViewShown ==
    [source |-> ui.source, field |-> ui.field, high |-> ui.high,
     bar_title |-> ui.bar_title, title |-> ui.title]

\* C11: while the dashboard serves, after any sequence of selections, the
\* source is GEOJSON_BY_MONTH[month_select.value], the fill field is
\* metric_select.value, mapper.high is vmax_map[metric_select.value], the colour
\* bar title and the heading name the selected metric and month, and no
\* callback changes GEOJSON_BY_MONTH, vmax_map, gj_base or df_all
C11_ViewFollowsSelection ==
    /\ []((prog = "main" /\ pc = "serve") => ViewShown = ViewOf(ui.month_select, ui.metric_select))
    /\ [][(prog = "main" /\ pc = "serve")
            => UNCHANGED <<GEOJSON_BY_MONTH, vmax_map, gj_base, df_all>>]_vars

\* both selects were changed: the second month with the metric "cases"
C11_Witness ==
    /\ prog = "main" /\ pc = "serve"
    /\ Len(months_sorted) >= 2
    /\ ui.month_select = months_sorted[2]
    /\ ui.metric_select = "cases"
    /\ vmax_map["cases"] # vmax_map["incidence_per_100k"]
    /\ GEOJSON_BY_MONTH[months_sorted[2]] # GEOJSON_BY_MONTH[months_sorted[1]]

\* months counted from year 0, and the month a count stands for
MonthIndex(y, m) == 12 * y + (m - 1)
MonthAt(i) == <<i \div 12, (i % 12) + 1>>

\* the months from start through end inclusive, in chronological order
MonthsThrough(start, end) ==
    LET first == MonthIndex(ParseKey(start)[1], ParseKey(start)[2])
        last == MonthIndex(ParseKey(end)[1], ParseKey(end)[2])
    IN  [k \in 1..(IF last < first THEN 0 ELSE last - first + 1) |-> MonthAt(first + k - 1)]

\* C12: for every pair of "Y-M" strings that parse to integers, month_iter
\* yields only month numbers in 1..12, what it has yielded so far is the
\* beginning of the months from start through end in chronological order
\* (December followed by January of the next year, nothing when start is after
\* end, never more values than there are months in the range, so that it
\* terminates), and once exhausted it has yielded exactly those months
C12_MonthIterRange ==
    prog = "month_iter" =>
        LET want == MonthsThrough(gen.start, gen.end)
        IN  /\ \A i \in 1..Len(gen.out) : gen.out[i][2] \in 1..12
            /\ Len(gen.out) <= Len(want)
            /\ \A i \in 1..Len(gen.out) : gen.out[i] = want[i]
            /\ pc = "done" => gen.out = want

====
